---- MODULE Spec2Model ----
(***************************************************************************)
(* A model of the MotionBuilder publish hooks of tk-motionbuilder:         *)
(*   hooks/tk-multi-publish2/basic/collector.py                            *)
(*   hooks/tk-multi-publish2/basic/publish_session.py                      *)
(* The session item is followed from collection through validate, with the *)
(* user able to save the session elsewhere, change the item's context and  *)
(* press the "Save to v<N>" button between two validations.                *)
(*                                                                         *)
(* A path is a record [dir, ver, messy]: dir is the directory and naming   *)
(* scheme of the file (what a template's pattern looks at), ver the number *)
(* of its version token (0: the name has no version token), messy whether  *)
(* the string is in a non-normalized spelling (doubled or foreign          *)
(* separators).  The empty string is EmptyPath.                            *)
(* A template is known by its name; "None" is Python's None.               *)
(***************************************************************************)
EXTENDS Integers, Sequences, FiniteSets, TLC

\* Highest version number a file of the initial state carries.
MaxVersion == 3

None == "None"

EmptyPath == [dir |-> "", ver |-> 0, messy |-> FALSE]

\* Directories / naming schemes a session file can live under.
Dirs == {"routine", "custom"}

\* publish_session.py:22-48
CONTEXT_TEMPLATE ==
    [k \in {"routine", "routine_subsession", "mocaptake",
            "mocaptake_subsession", "asset"} |->
        [work_template |-> "mobu_" \o k \o "_work",
         publish_template |-> "mobu_" \o k \o "_publish"]]

ContextTemplateNames ==
    {CONTEXT_TEMPLATE[k].work_template : k \in DOMAIN CONTEXT_TEMPLATE}
        \cup {CONTEXT_TEMPLATE[k].publish_template : k \in DOMAIN CONTEXT_TEMPLATE}

\* The templates the configuration (templates.yml) defines.
Registry == ContextTemplateNames \cup {"custom_work", "custom_publish", "flat_work"}

\* Values a template setting can carry: unset, a defined template, or a name
\* the configuration does not define.
WorkSettingValues == {None, "custom_work", "bogus"}
PublishSettingValues == {None, "custom_publish", "bogus"}

\* Entity types an item's context can point at; NoEntity is a context whose
\* entity is None.
NoEntity == "NoEntity"
EntityTypes == {"Routine", "MocapTake", "Asset", "Shot"}

\* str.lower() on the entity types above.
Lower(t) ==
    CASE t = "Routine" -> "routine"
      [] t = "MocapTake" -> "mocaptake"
      [] t = "Asset" -> "asset"
      [] t = "Shot" -> "shot"
      [] OTHER -> t

\* What shotgun.find_one answers for the context entity: nothing, or the
\* entity with its sg_subsession flag.
SgAnswers == {"absent", "subsession", "plain"}

VARIABLES
    session,        \* mb_app.FBXFileName: the path of the open session, EmptyPath if never saved
    disk,           \* the files that exist on disk, as [dir, ver]
    settings,       \* the plugin's and the collector's settings values
    context,        \* item.context: [task, entity]
    sg,             \* what the tracking system answers for the context entity
    props,          \* item.properties of the session item
    allowed,        \* item.context_change_allowed
    engine_synced,  \* whether engine.context is item.context
    remedy,         \* the action button the last call of validate attached to its error
    outcome,        \* how the last call of validate ended
    events,         \* what the last call of validate did, in order
    pre,            \* item.properties as the last call of validate found them
    phase,          \* how far the publisher's run got: "idle", "published", "finalized"
    records,        \* the publish records the tracking system holds
    publish_data,   \* item.properties["sg_publish_data"] of the session item
    published_from, \* FBXFileName as the last call of publish found it
    plog,           \* what publish and finalize did, in order
    fin,            \* how the last call of publish or finalize ended
    probe_pc,       \* where the version probe of validate stands
    next_version_path,  \* the probe's local next_version_path
    scene,          \* mb_scene.Cameras: records of Name and SystemCamera
    take_name,      \* name of the take item, the take's Name
    cam_list,       \* the take item: who collected it, whether its properties hold "cam_list", the entries
    raccepted,      \* what the render plugin's accept answered for the take item
    cams,           \* settings["cams"].value of the render task: camera name -> state
    cur_cam,        \* system.Renderer.CurrentCamera
    jobs,           \* the render jobs submitted
    rout,           \* how the render plugin's last validate or publish ended
    rlog,           \* what the render plugin's last publish did, in order
    ui_tasks,       \* settings["cams"].value of each render task
    ui_selected,    \* the render tasks the settings widget shows, in order
    chk,            \* controller.cam_checkboxes: the handler of each camera's checkbox
    ui_clicked      \* the checkboxes the user clicked since set_ui_settings returned

\* The version probe of validate, taken step by step.
probe_vars == <<probe_pc, next_version_path>>

\* The take item and the render plugin's task on it.
render_vars == <<scene, take_name, cam_list, raccepted, cams, cur_cam, jobs,
                 rout, rlog>>

\* The settings widget of the render plugin and the tasks it edits.
ui_vars == <<ui_tasks, ui_selected, chk, ui_clicked>>

\* Everything the session plugin's validate, publish and finalize leave alone.
beyond_cycle == <<probe_vars, render_vars, ui_vars>>

\* What the session plugin's publish and finalize work on, beyond validate.
cycle_vars == <<phase, records, publish_data, published_from, plog, fin>>

\* Everything the actions around validate leave alone.
beyond_validate == <<cycle_vars, beyond_cycle>>

vars == <<session, disk, settings, context, sg, props, allowed, engine_synced,
          remedy, outcome, events, pre, beyond_validate>>

\* No publish record.
NoRecord == [id |-> 0, path |-> EmptyPath, version |-> 0]

\* The publisher has not started publishing.
CycleIdle ==
    /\ phase = "idle"
    /\ records = {}
    /\ publish_data = NoRecord
    /\ published_from = EmptyPath
    /\ plog = <<>>
    /\ fin = "none"

\* No version probe is under way.
ProbeIdle ==
    /\ probe_pc = "idle"
    /\ next_version_path = EmptyPath

\* No camera, the None of Python among camera names.
NoCam == <<None>>

\* A dict without keys.
EmptyDict == [n \in {} |-> FALSE]

\* No take item has been collected.
RenderIdle ==
    /\ scene = {}
    /\ take_name = <<>>
    /\ cam_list = [origin |-> "none", present |-> FALSE, entries |-> {}]
    /\ raccepted = "unknown"
    /\ cams = EmptyDict
    /\ cur_cam = NoCam
    /\ jobs = {}
    /\ rout = "none"
    /\ rlog = <<>>

\* No settings widget has been made.
UiIdle ==
    /\ ui_tasks = EmptyDict
    /\ ui_selected = <<>>
    /\ chk = EmptyDict
    /\ ui_clicked = {}

\* Nothing but the session plugin is at work.
OthersIdle == ProbeIdle /\ RenderIdle /\ UiIdle

NoRemedy == [label |-> 0, target |-> EmptyPath]

NoProps == [work_template |-> None, publish_template |-> None,
            path |-> EmptyPath, project_root |-> ""]

\* ------------------------------------------------------------------------
\* Collaborators of the hooks (toolkit, host application, file system)

\* engine.get_template_by_name: the template of that name, None if the
\* configuration defines none (or the name is None).
get_template_by_name(name) == IF name \in Registry THEN name ELSE None

\* The directory / naming scheme a template's pattern describes.
TemplateDir(t) ==
    CASE t = "mobu_routine_work" -> "routine"
      [] t = "custom_work" -> "custom"
      [] t = "flat_work" -> "custom"
      [] OTHER -> "area_of_" \o t

\* Whether a template's pattern has a {version} key: "flat_work" names files
\* without a version token.
HasVersionKey(t) == t # "flat_work"

\* Template.validate(path): the path is spelled the normalized way, lies where
\* the pattern says and carries a version token exactly if the pattern has
\* one.
TemplateValidate(t, path) ==
    /\ ~path.messy
    /\ path.dir = TemplateDir(t)
    /\ (path.ver # 0) <=> HasVersionKey(t)

\* sgtk.util.ShotgunPath.normalize
Normalize(path) == [path EXCEPT !.messy = FALSE]

\* os.path.dirname
Dirname(path) == path.dir

\* os.path.exists
Exists(path, d) == [dir |-> path.dir, ver |-> path.ver] \in d

\* The base hook's _get_next_version_info: the path with its version token
\* incremented by one and that version, or (None, None) when the name carries
\* no version token.
get_next_version_info(path) ==
    IF path.ver = 0
    THEN [path |-> EmptyPath, version |-> 0]
    ELSE [path |-> [path EXCEPT !.ver = @ + 1], version |-> path.ver + 1]

\* The truth value Python gives a Setting instance in `if setting:` /
\* `not setting`: the class defines neither __nonzero__ nor __len__, so the
\* instance is true whatever its .value is.
SettingTruth(setting) == TRUE

\* settings.get("Force Template"): the Setting instance, not its value.
ForceTemplateSetting(st) == [name |-> "Force Template", value |-> st.force]

\* ------------------------------------------------------------------------
\* publish_session.py: _get_templates_from_context

\* The key line 442 looks up: the type find_one returns, as it is spelled,
\* followed by "_subsession".
SubsessionKey(entity_type) == entity_type \o "_subsession"

\* _get_templates_from_context looking the lower-cased type up without first
\* testing that CONTEXT_TEMPLATE has it.
get_templates_from_context_NoGuard(p, c, s) ==
    IF c.entity = NoEntity
    THEN [raised |-> "TypeError", key |-> None, props |-> p,
          events |-> <<"select">>]
    ELSE IF s = "absent"
    THEN [raised |-> "TypeError", key |-> None, props |-> p,
          events |-> <<"select", "find_one">>]
    ELSE LET key == IF c.entity \in {"Routine", "MocapTake"} /\ s = "subsession"
                    THEN SubsessionKey(c.entity)
                    ELSE Lower(c.entity)
         IN  IF key \notin DOMAIN CONTEXT_TEMPLATE
             THEN [raised |-> "KeyError", key |-> None, props |-> p,
                   events |-> <<"select", "debug_unsupported", "find_one">>]
             ELSE [raised |-> None, key |-> key,
                   props |-> [p EXCEPT
                       !.work_template =
                           IF @ = None
                           THEN get_template_by_name(CONTEXT_TEMPLATE[key].work_template)
                           ELSE @,
                       !.publish_template =
                           IF @ = None
                           THEN get_template_by_name(CONTEXT_TEMPLATE[key].publish_template)
                           ELSE @],
                   events |-> <<"select", "find_one", "store">>]

\* A call's result: raised is the exception that ended it (None: it
\* returned), key the CONTEXT_TEMPLATE entry it selected (None: none), props
\* item.properties afterwards, events what it did.
get_templates_from_context(p, c, s) ==
    IF c.entity = NoEntity
    THEN \* line 420: ctx_entity["type"] on None
         [raised |-> "TypeError", key |-> None, props |-> p,
          events |-> <<"select">>]
    ELSE LET entity_type == c.entity
             is_routine_or_take ==
                 entity_type = "Routine" \/ entity_type = "MocapTake"
         IN  IF Lower(entity_type) \notin DOMAIN CONTEXT_TEMPLATE
             THEN [raised |-> None, key |-> None, props |-> p,
                   events |-> <<"select", "debug_unsupported">>]
             ELSE IF s = "absent"
             THEN \* line 437: the log message reads ctx_entity["type"] of the
                  \* None that find_one returned
                  [raised |-> "TypeError", key |-> None, props |-> p,
                   events |-> <<"select", "find_one">>]
             ELSE LET key == IF is_routine_or_take /\ s = "subsession"
                             THEN SubsessionKey(entity_type)
                             ELSE Lower(entity_type)
                  IN  IF key \notin DOMAIN CONTEXT_TEMPLATE
                      THEN [raised |-> "KeyError", key |-> None, props |-> p,
                            events |-> <<"select", "find_one">>]
                      ELSE LET template_info == CONTEXT_TEMPLATE[key]
                               p1 == IF p.work_template = None
                                     THEN [p EXCEPT !.work_template =
                                             get_template_by_name(template_info.work_template)]
                                     ELSE p
                               p2 == IF p1.publish_template = None
                                     THEN [p1 EXCEPT !.publish_template =
                                             get_template_by_name(template_info.publish_template)]
                                     ELSE p1
                           IN  [raised |-> None, key |-> key, props |-> p2,
                                events |-> <<"select", "find_one", "store">>]

\* ------------------------------------------------------------------------
\* publish_session.py: validate, one operator per check, in the order of the
\* code.  A frame carries the call's local state from one check to the next:
\* outcome is "running" until a check ends the call; path is the local
\* variable path; synced tells whether engine.context is item.context.

Step(f, what) == [f EXCEPT !.events = @ \o what]

End(f, how, what) == [f EXCEPT !.outcome = how, !.events = @ \o what]

\* _get_save_as_action(context): switches the engine to the item's context
\* when it is in another one, then builds the "Save As..." button.
get_save_as_action(f) == [f EXCEPT !.synced = TRUE]

\* CheckSaved with the unsaved-session check left out.
CheckSaved_Skipped(f) == f

\* lines 239-251
CheckSaved(f) ==
    IF f.path = EmptyPath
    THEN End(get_save_as_action(f), "UnsavedSessionError", <<"error_unsaved">>)
    ELSE f

\* CheckTask run after the project root has been stored on the item.
CheckTask_AfterRoot(f, st, c) ==
    IF f.outcome # "running" THEN f
    ELSE IF SettingTruth(ForceTemplateSetting(st)) /\ ~c.task
         THEN [End(f, "MissingTask", <<"error_no_task">>)
                  EXCEPT !.props.project_root = Dirname(f.path)]
         ELSE f

\* lines 241, 255-260
CheckTask(f, st, c) ==
    IF f.outcome # "running" THEN f
    ELSE IF SettingTruth(ForceTemplateSetting(st)) /\ ~c.task
         THEN End(f, "MissingTask", <<"error_no_task">>)
         ELSE f

\* lines 263-278
SetProjectRoot(f) ==
    IF f.outcome # "running" THEN f
    ELSE [Step(f, <<"write_project_root">>) EXCEPT
              !.props.project_root = Dirname(f.path),
              !.path = Normalize(f.path)]

\* lines 283-294
ResolveWorkTemplate(f, st, c, s) ==
    IF f.outcome # "running" THEN f
    ELSE IF f.props.work_template # None THEN f
    ELSE IF SettingTruth(ForceTemplateSetting(st))
         THEN LET sel == get_templates_from_context(f.props, c, s)
                  g == [Step(f, sel.events) EXCEPT !.props = sel.props]
              IN  IF sel.raised # None THEN End(g, sel.raised, <<>>)
                  ELSE IF g.props.work_template = None
                       THEN End(g, "NoWorkTemplate", <<"error_no_work_template">>)
                       ELSE g
         ELSE Step(f, <<"debug_no_work_template">>)

\* CheckWorkTemplate that only ever warns about a mismatch.
CheckWorkTemplate_WarnOnly(f, st) ==
    IF f.outcome # "running" THEN f
    ELSE IF f.props.work_template = None THEN f
    ELSE IF ~TemplateValidate(f.props.work_template, f.path)
         THEN Step(get_save_as_action(f), <<"work_validate", "warning_mismatch">>)
         ELSE Step(f, <<"work_validate", "debug_match">>)

\* lines 296-306
CheckWorkTemplate(f, st) ==
    IF f.outcome # "running" THEN f
    ELSE IF f.props.work_template = None THEN f
    ELSE IF ~TemplateValidate(f.props.work_template, f.path)
         THEN IF ~SettingTruth(ForceTemplateSetting(st))
              THEN Step(get_save_as_action(f), <<"work_validate", "warning_mismatch">>)
              ELSE End(get_save_as_action(f), "TemplateMismatch",
                       <<"work_validate", "error_mismatch">>)
         ELSE Step(f, <<"work_validate", "debug_match">>)

\* lines 316-320: keep asking for the next version until one does not exist
RECURSIVE NextAvailable(_, _)
NextAvailable(info, d) ==
    IF Exists(info.path, d)
    THEN NextAvailable(get_next_version_info(info.path), d)
    ELSE info

\* ProbeNextVersion that offers the immediate next version without looking for
\* a free one.
ProbeNextVersion_NoLoop(f, d) ==
    IF f.outcome # "running" THEN f
    ELSE LET info == get_next_version_info(f.path)
         IN  IF info.path # EmptyPath /\ Exists(info.path, d)
             THEN [End(f, "VersionCollisionError", <<"probe", "error_collision">>)
                      EXCEPT !.remedy = [label |-> info.version,
                                         target |-> info.path]]
             ELSE Step(f, <<"probe">>)

\* lines 313-334
ProbeNextVersion(f, d) ==
    IF f.outcome # "running" THEN f
    ELSE LET info == get_next_version_info(f.path)
         IN  IF info.path # EmptyPath /\ Exists(info.path, d)
             THEN LET free == NextAvailable(info, d)
                  IN  [End(f, "VersionCollisionError", <<"probe", "error_collision">>)
                          EXCEPT !.remedy = [label |-> free.version,
                                             target |-> free.path]]
             ELSE Step(f, <<"probe">>)

\* lines 339-353
ResolvePublishTemplate(f, st, c, s) ==
    IF f.outcome # "running" THEN f
    ELSE LET publish_template == get_template_by_name(st.publish)
             g == Step(f, <<"get_publish_template">>)
         IN  IF publish_template # None
             THEN [g EXCEPT !.props.publish_template = publish_template]
             ELSE IF SettingTruth(ForceTemplateSetting(st))
                  THEN LET sel == get_templates_from_context(g.props, c, s)
                           h == [Step(g, sel.events) EXCEPT !.props = sel.props]
                       IN  IF sel.raised # None THEN End(h, sel.raised, <<>>)
                           ELSE IF h.props.publish_template = None
                                THEN End(h, "NoPublishTemplate",
                                         <<"error_no_publish_template">>)
                                ELSE h
                  ELSE g

\* lines 355-360: the path goes on the item and the base class decides.
BaseValidate(f, base_ok) ==
    IF f.outcome # "running" THEN f
    ELSE [End(f, IF base_ok THEN "Valid" ELSE "BaseRejected",
              <<"write_path", "base_validate">>)
             EXCEPT !.props.path = f.path]

\* validate that resolves the publish template before it probes the versions.
validate_PublishTemplateFirst(sess, d, st, c, s, p, synced, base_ok) ==
    LET f0 == [outcome |-> "running", props |-> p, events |-> <<>>,
               remedy |-> NoRemedy, synced |-> synced, path |-> sess]
        f1 == CheckSaved(f0)
        f2 == CheckTask(f1, st, c)
        f3 == SetProjectRoot(f2)
        f4 == ResolveWorkTemplate(f3, st, c, s)
        f5 == CheckWorkTemplate(f4, st)
        f6 == ResolvePublishTemplate(f5, st, c, s)
        f7 == ProbeNextVersion(f6, d)
    IN  BaseValidate(f7, base_ok)

\* lines 226-360
validate(sess, d, st, c, s, p, synced, base_ok) ==
    LET f0 == [outcome |-> "running", props |-> p, events |-> <<>>,
               remedy |-> NoRemedy, synced |-> synced, path |-> sess]
        f1 == CheckSaved(f0)
        f2 == CheckTask(f1, st, c)
        f3 == SetProjectRoot(f2)
        f4 == ResolveWorkTemplate(f3, st, c, s)
        f5 == CheckWorkTemplate(f4, st)
        f6 == ProbeNextVersion(f5, d)
        f7 == ResolvePublishTemplate(f6, st, c, s)
    IN  BaseValidate(f7, base_ok)

\* Outcomes of validate that are an exception leaving the method.
Raised == {"UnsavedSessionError", "VersionCollisionError", "TypeError", "KeyError"}
\* Outcomes where validate returned False.
ReturnedFalse == {"MissingTask", "NoWorkTemplate", "TemplateMismatch",
                  "NoPublishTemplate", "BaseRejected"}

\* ------------------------------------------------------------------------
\* collector.py and accept: the state the item is in when validate is first
\* called

\* The string FBXFileName holds, as the collector stores it.
PathString(path) == IF path = EmptyPath THEN "" ELSE path.dir \o "/<file>"

\* collector.py:119-120, 158-169: item.properties of the new session item.
\* The collector's settings always hold a "Work Template" Setting instance.
collect_current_motion_builder_session(sess, st) ==
    [NoProps EXCEPT !.project_root = PathString(sess),
                    !.work_template = get_template_by_name(st.work)]

\* collector.py:173-174 and publish_session.py:214-215: context_change_allowed
\* after collection and accept.  At collection the item's context is the
\* engine's.
accept(st, c) == ~c.task /\ st.publish = None

\* ------------------------------------------------------------------------
\* Initial states

Files(dir, versions) == {[dir |-> dir, ver |-> v] : v \in versions}

\* The version numbers of the files of one directory: a name without version
\* token has the one file, a versioned name any set of versions.
VersionSets == {{0}} \cup SUBSET (1 .. MaxVersion)

Sessions(files) ==
    {EmptyPath} \cup {[dir |-> f.dir, ver |-> f.ver, messy |-> m] :
                          f \in files, m \in BOOLEAN}

SettingsValues ==
    [force : BOOLEAN, publish : PublishSettingValues, work : WorkSettingValues]

\* Contexts with what the tracking system answers for their entity.  The
\* answer matters only for the types _get_templates_from_context looks up;
\* sg_subsession is requested only for Routine and MocapTake.
Contexts ==
    {<<[task |-> TRUE, entity |-> e], a>> :
        e \in {"Routine", "MocapTake"}, a \in SgAnswers}
    \cup {<<[task |-> TRUE, entity |-> "Asset"], a>> : a \in {"absent", "plain"}}
    \cup {<<[task |-> TRUE, entity |-> e], "plain">> : e \in {"Shot", NoEntity}}
    \cup {<<[task |-> FALSE, entity |-> "Asset"], "plain">>}

Init ==
    \E dir \in Dirs, versions \in VersionSets,
       st \in SettingsValues, cs \in Contexts :
        /\ disk = Files(dir, versions)
        /\ session \in Sessions(disk)
        /\ settings = st
        /\ context = cs[1]
        /\ sg = cs[2]
        /\ props = collect_current_motion_builder_session(session, st)
        /\ allowed = accept(st, cs[1])
        /\ engine_synced = TRUE
        /\ remedy = NoRemedy
        /\ outcome = "none"
        /\ events = <<>>
        /\ pre = props
        /\ CycleIdle
        /\ OthersIdle

\* ------------------------------------------------------------------------
\* Actions

\* _save_session(path): mb_app.FileSave(path) writes the file and makes it the
\* session's file.
save_session(path) ==
    /\ session' = path
    /\ disk' = disk \cup {[dir |-> path.dir, ver |-> path.ver]}

\* The publisher calls validate on the session item.
Validate ==
    \E base_ok \in BOOLEAN :
        LET r == validate(session, disk, settings, context, sg, props,
                          engine_synced, base_ok)
        IN  /\ props' = r.props
            /\ remedy' = r.remedy
            /\ engine_synced' = r.synced
            /\ outcome' = r.outcome
            /\ events' = r.events
            /\ pre' = props
            /\ UNCHANGED <<session, disk, settings, context, sg, allowed>>
            /\ UNCHANGED beyond_validate

\* The user saves a session that was never saved, from the "Save As..."
\* button (_save_as_session) or from the application.
SaveAs ==
    /\ session = EmptyPath
    /\ \E dir \in Dirs, ver \in 0 .. MaxVersion :
           save_session([dir |-> dir, ver |-> ver, messy |-> FALSE])
    /\ outcome' = "none"
    /\ events' = <<>>
    /\ remedy' = NoRemedy
    /\ pre' = props
    /\ UNCHANGED <<settings, context, sg, props, allowed, engine_synced>>
    /\ UNCHANGED beyond_validate

\* The user presses the "Save to v<N>" button of a version-collision error
\* (line 330: lambda: _save_session(next_version_path)).
ClickSaveToVersion ==
    /\ remedy # NoRemedy
    /\ save_session(remedy.target)
    /\ outcome' = "none"
    /\ events' = <<>>
    /\ remedy' = NoRemedy
    /\ pre' = props
    /\ UNCHANGED <<settings, context, sg, props, allowed, engine_synced>>
    /\ UNCHANGED beyond_validate

\* The user gives the item another context in the publisher, which the item
\* allows only while context_change_allowed is set.
ChangeContext ==
    /\ allowed
    /\ \E cs \in Contexts :
           /\ cs[1] # context \/ cs[2] # sg
           /\ context' = cs[1]
           /\ sg' = cs[2]
    /\ engine_synced' = FALSE
    /\ outcome' = "none"
    /\ events' = <<>>
    /\ remedy' = NoRemedy
    /\ pre' = props
    /\ UNCHANGED <<session, disk, settings, props, allowed>>
    /\ UNCHANGED beyond_validate

Next ==
    \/ Validate
    \/ SaveAs
    \/ ClickSaveToVersion
    \/ ChangeContext

Spec == Init /\ [][Next]_vars

\* ------------------------------------------------------------------------
\* publish_session.py: publish and finalize

\* How a call of mb_app.FileSave can end: the file is written, the host
\* returns False without writing it, or the host raises.
SaveResults == {"saved", "failed", "raised"}

\* mb_app.FileSave(path) on a run g: a written file exists on disk and is the
\* session's file from then on.  _save_session (lines 464-469) discards what
\* FileSave returns.
FileSave(g, path, result) ==
    IF result = "saved"
    THEN [g EXCEPT !.session = path,
                   !.disk = @ \cup {[dir |-> path.dir, ver |-> path.ver]},
                   !.plog = @ \o <<"save">>]
    ELSE IF result = "failed"
         THEN [g EXCEPT !.plog = @ \o <<"save">>]
         ELSE [g EXCEPT !.plog = @ \o <<"save">>, !.fin = "SaveError"]

\* The path publish saves to: one version further than the session's.
publish_path_NextVersion(sess) == get_next_version_info(Normalize(sess)).path

\* line 374: the path publish saves to and publishes
publish_path(sess) == Normalize(sess)

\* lines 376-377
PublishSave(g, result) ==
    IF g.fin # "running" THEN g
    ELSE FileSave(g, publish_path(g.session), result)

\* lines 379-380
PublishWritePath(g) ==
    IF g.fin # "running" THEN g
    ELSE [g EXCEPT !.props.path = publish_path(g.session),
                   !.plog = @ \o <<"write_path">>]

\* lines 382-383: the base class registers the publish of
\* item.properties["path"] with the tracking system and keeps the record in
\* item.properties["sg_publish_data"]; the registration can fail.
PublishRegister(g, reg_ok) ==
    IF g.fin # "running" THEN g
    ELSE IF reg_ok
         THEN LET rec == [id |-> Cardinality(g.records) + 1,
                          path |-> g.props.path,
                          version |-> g.props.path.ver]
              IN  [g EXCEPT !.records = @ \cup {rec},
                            !.publish_data = rec,
                            !.plog = @ \o <<"register">>,
                            !.fin = "Published"]
         ELSE [g EXCEPT !.plog = @ \o <<"register">>, !.fin = "RegisterError"]

\* publish that lets the base class register before the session is saved.
publish_RegisterFirst(g, result, reg_ok) ==
    LET g1 == PublishRegister(PublishWritePath(g), reg_ok)
        g2 == PublishSave([g1 EXCEPT !.fin = "running"], result)
    IN  [g2 EXCEPT !.fin = IF @ = "running" THEN g1.fin ELSE @]

\* lines 362-383
publish(g, result, reg_ok) ==
    PublishRegister(PublishWritePath(PublishSave(g, result)), reg_ok)

\* The base hook's _save_to_next_version(path, item, save_callback): nothing
\* to do without a next version path, a warning if that file exists, else the
\* callback saves there and the save is logged.
save_to_next_version(g, path, result) ==
    LET info == get_next_version_info(path)
    IN  IF info.path = EmptyPath
        THEN [g EXCEPT !.plog = @ \o <<"debug_no_next_version">>, !.fin = "NoVersion"]
        ELSE IF Exists(info.path, g.disk)
        THEN [g EXCEPT !.plog = @ \o <<"warn_exists">>, !.fin = "NextVersionExists"]
        ELSE LET h == FileSave(g, info.path, result)
             IN  IF h.fin # "running" THEN h
                 ELSE [h EXCEPT !.plog = @ \o <<"info_saved">>,
                                !.fin = IF result = "saved" THEN "Bumped"
                                        ELSE "SaveFailedSilently"]

\* finalize that takes a path without a version for version 1.
finalize_CountsFromOne(g, result) ==
    save_to_next_version([g EXCEPT !.plog = @ \o <<"base_finalize">>],
                         [g.props.path EXCEPT !.ver = IF @ = 0 THEN 1 ELSE @],
                         result)

\* lines 385-400
finalize(g, result) ==
    save_to_next_version([g EXCEPT !.plog = @ \o <<"base_finalize">>],
                         g.props.path, result)

\* The state publish and finalize run on.
Run ==
    [session |-> session, disk |-> disk, props |-> props, records |-> records,
     publish_data |-> publish_data, plog |-> <<>>, fin |-> "running"]

\* The run's state becomes the program's.
Commit(g) ==
    /\ session' = g.session
    /\ disk' = g.disk
    /\ props' = g.props
    /\ records' = g.records
    /\ publish_data' = g.publish_data
    /\ plog' = g.plog
    /\ fin' = g.fin

\* The publisher publishes the session item: only right after every task
\* validated.
Publish ==
    /\ phase = "idle"
    /\ outcome = "Valid"
    /\ \E result \in SaveResults, reg_ok \in BOOLEAN :
           LET g == publish(Run, result, reg_ok)
           IN  /\ Commit(g)
               /\ phase' = IF g.fin = "Published" THEN "published" ELSE phase
    /\ published_from' = session
    /\ UNCHANGED <<settings, context, sg, allowed, engine_synced, remedy,
                   outcome, events, pre>>
    /\ UNCHANGED beyond_cycle

\* The publisher finalizes the session item once it is published.
Finalize ==
    /\ phase = "published"
    /\ \E result \in SaveResults :
           Commit([finalize(Run, result) EXCEPT !.plog = plog \o @])
    /\ phase' = "finalized"
    /\ UNCHANGED <<settings, context, sg, allowed, engine_synced, remedy,
                   outcome, events, pre, published_from>>
    /\ UNCHANGED beyond_cycle

\* Sessions, settings and contexts of the publish runs looked at.
CycleSettings ==
    [force : BOOLEAN, publish : {None, "custom_publish"},
     work : {None, "custom_work", "flat_work"}]

CycleContexts ==
    {<<[task |-> TRUE, entity |-> "Routine"], "plain">>,
     <<[task |-> TRUE, entity |-> "Shot"], "plain">>,
     <<[task |-> FALSE, entity |-> "Asset"], "plain">>}

InitCycle ==
    \E dir \in Dirs, versions \in VersionSets,
       st \in CycleSettings, cs \in CycleContexts :
        /\ disk = Files(dir, versions)
        /\ session \in Sessions(disk)
        /\ settings = st
        /\ context = cs[1]
        /\ sg = cs[2]
        /\ props = collect_current_motion_builder_session(session, st)
        /\ allowed = accept(st, cs[1])
        /\ engine_synced = TRUE
        /\ remedy = NoRemedy
        /\ outcome = "none"
        /\ events = <<>>
        /\ pre = props
        /\ CycleIdle
        /\ OthersIdle

NextCycle ==
    \/ phase = "idle" /\ Validate
    \/ phase = "idle" /\ SaveAs
    \/ phase = "idle" /\ ClickSaveToVersion
    \/ Publish
    \/ Finalize

SpecCycle == InitCycle /\ [][NextCycle]_vars

\* ------------------------------------------------------------------------
\* publish_session.py lines 313-334: the version probe, one step per call of
\* _get_next_version_info

\* The loop body that asks for the same path again.
probe_loop_step_SamePath(path) == path

\* lines 319-320: the body of the while loop
probe_loop_step(path) == get_next_version_info(path).path

\* lines 313-314: the next version of the session's path, and whether it is
\* taken
ProbeStart ==
    /\ probe_pc = "start"
    /\ LET info == get_next_version_info(Normalize(session))
       IN  /\ next_version_path' = info.path
           /\ probe_pc' = IF info.path # EmptyPath /\ Exists(info.path, disk)
                          THEN "loop" ELSE "passed"
    /\ UNCHANGED <<session, disk, settings, context, sg, props, allowed,
                   engine_synced, remedy, outcome, events, pre, cycle_vars,
                   render_vars, ui_vars>>

\* lines 318-320: the path exists, ask for the one after it
ProbeLoop ==
    /\ probe_pc = "loop"
    /\ Exists(next_version_path, disk)
    /\ next_version_path' = probe_loop_step(next_version_path)
    /\ UNCHANGED <<session, disk, settings, context, sg, props, allowed,
                   engine_synced, remedy, outcome, events, pre, cycle_vars,
                   probe_pc, render_vars, ui_vars>>

\* lines 318, 322-334: the path does not exist, the error offers it
ProbeExit ==
    /\ probe_pc = "loop"
    /\ ~Exists(next_version_path, disk)
    /\ probe_pc' = "raised"
    /\ remedy' = [label |-> next_version_path.ver, target |-> next_version_path]
    /\ outcome' = "VersionCollisionError"
    /\ UNCHANGED <<session, disk, settings, context, sg, props, allowed,
                   engine_synced, events, pre, cycle_vars, next_version_path,
                   render_vars, ui_vars>>

\* Saved sessions among version files, validate arrived at the probe.
InitProbe ==
    \E dir \in Dirs, versions \in VersionSets :
        /\ disk = Files(dir, versions)
        /\ session \in Sessions(disk) \ {EmptyPath}
        /\ settings = [force |-> TRUE, publish |-> None, work |-> None]
        /\ context = [task |-> TRUE, entity |-> "Routine"]
        /\ sg = "plain"
        /\ props = collect_current_motion_builder_session(session, settings)
        /\ allowed = accept(settings, context)
        /\ engine_synced = TRUE
        /\ remedy = NoRemedy
        /\ outcome = "none"
        /\ events = <<>>
        /\ pre = props
        /\ CycleIdle
        /\ RenderIdle
        /\ UiIdle
        /\ probe_pc = "start"
        /\ next_version_path = EmptyPath

NextProbe == ProbeStart \/ ProbeLoop \/ ProbeExit

\* The probe is straight-line code of one call: it takes its next step
\* whenever it has one.
SpecProbe == InitProbe /\ [][NextProbe]_vars /\ WF_vars(NextProbe)

\* ------------------------------------------------------------------------
\* collector.py lines 122-153 and render_upload_take_version.py: the take
\* item and the render plugin.  A name is the sequence of its characters.

Letters ==
    {"a", "b", "c", "d", "e", "f", "g", "h", "i", "j", "k", "l", "m", "n", "o",
     "p", "q", "r", "s", "t", "u", "v", "w", "x", "y", "z",
     "A", "B", "C", "D", "E", "F", "G", "H", "I", "J", "K", "L", "M", "N", "O",
     "P", "Q", "R", "S", "T", "U", "V", "W", "X", "Y", "Z"}

Digits == {"0", "1", "2", "3", "4", "5", "6", "7", "8", "9"}

\* [a-zA-Z0-9_]
WordChars == Letters \cup Digits \cup {"_"}

\* 'Producer Perspective'
ProducerPerspective ==
    <<"P", "r", "o", "d", "u", "c", "e", "r", " ",
      "P", "e", "r", "s", "p", "e", "c", "t", "i", "v", "e">>

\* 'Producer Front', another of the host's system cameras
ProducerFront ==
    <<"P", "r", "o", "d", "u", "c", "e", "r", " ", "F", "r", "o", "n", "t">>

\* The system cameras of every scene: the host does not let them be deleted.
SystemCameras ==
    {[name |-> ProducerPerspective, system |-> TRUE],
     [name |-> ProducerFront, system |-> TRUE]}

\* Names users gave their cameras: 'cam_1', 'cam-2', 'cam\n'.
UserCamNames ==
    {<<"c", "a", "m", "_", "1">>, <<"c", "a", "m", "-", "2">>,
     <<"c", "a", "m", "\n">>}

\* Names users gave their takes: 'Take_001', 'Take 001', 'Take\n'.
TakeNames ==
    {<<"T", "a", "k", "e", "_", "0", "0", "1">>,
     <<"T", "a", "k", "e", " ", "0", "0", "1">>,
     <<"T", "a", "k", "e", "\n">>}

\* The camera list without the backup when the scene has no user camera.
collect_cam_list_NoBackup(sc) ==
    [present |-> TRUE, entries |-> {c.name : c \in {x \in sc : ~x.system}}]

\* collector.py lines 122-132, 153: the user cameras, or else the one entry
\* persp_cam, which is None unless the loop found 'Producer Perspective'.
\* The list is kept as the set of its entries' names.
collect_cam_list(sc) ==
    LET user_cams == {c.name : c \in {x \in sc : ~x.system}}
        persp_cam == IF \E c \in sc : c.system /\ c.name = ProducerPerspective
                     THEN ProducerPerspective ELSE NoCam
    IN  [present |-> TRUE,
         entries |-> IF user_cams # {} THEN user_cams ELSE {persp_cam}]

\* lines 409-414
render_accept(cl) ==
    IF ~cl.present \/ cl.entries = {} THEN "rejected" ELSE "accepted"

\* re.match('^[a-zA-Z0-9_]*$', name): word characters to the end of the
\* string, where $ also matches just before a newline that ends the string.
re_match(name) ==
    LET n == Len(name)
    IN  \/ \A i \in 1 .. n : name[i] \in WordChars
        \/ /\ n >= 1
           /\ name[n] = "\n"
           /\ \A i \in 1 .. (n - 1) : name[i] \in WordChars

\* The names whose state is true in the cams dict.
Selected(dict) == {n \in DOMAIN dict : dict[n]}

\* lines 443-469
render_validate(name, dict) ==
    IF ~re_match(name) THEN "BadTakeName"
    ELSE IF Selected(dict) = {} THEN "NoCameraSelected"
    ELSE IF \E n \in Selected(dict) : ~re_match(n) THEN "BadCameraName"
    ELSE "Valid"

\* The orders a dict can hand out the names of S in.
Orders(S) ==
    {f \in [1 .. Cardinality(S) -> S] :
         \A i, j \in 1 .. Cardinality(S) : i # j => f[i] # f[j]}

RECURSIVE cam_list_str(_)
\* lines 494-500: the names of the selected cameras, in the order the dict
\* hands them out, joined by ':'
cam_list_str(order) ==
    IF order = <<>> THEN <<>>
    ELSE IF Len(order) = 1 THEN order[1]
    ELSE order[1] \o <<":">> \o cam_list_str(Tail(order))

\* render publish that goes on without the publish of the parent.
render_publish_NoGuard(pd, name, dict, cur, js, order, after) ==
    LET submitted == cam_list_str(order) # <<>>
    IN  [rout |-> "Published",
         jobs |-> IF submitted
                  THEN js \cup {[id |-> pd.id, takes |-> name,
                                 cameras |-> cam_list_str(order), render_local |-> TRUE]}
                  ELSE js,
         cur_cam |-> IF cur # NoCam THEN cur
                     ELSE IF submitted THEN after ELSE cur,
         rlog |-> <<"read_cur_cam">>
                  \o (IF submitted THEN <<"create_job", "main">> ELSE <<>>)
                  \o (IF cur # NoCam THEN <<"set_cur_cam">>
                      ELSE <<"info_no_render">>)]

\* lines 481-510: order is the order the dict hands out the selected names
\* in, after is the camera the render job leaves current.
render_publish(pd, name, dict, cur, js, order, after) ==
    IF pd = NoRecord
    THEN [rout |-> "NoPublishError", jobs |-> js, cur_cam |-> cur,
          rlog |-> <<"error_no_publish">>]
    ELSE LET submitted == cam_list_str(order) # <<>>
         IN  [rout |-> "Published",
              jobs |-> IF submitted
                       THEN js \cup {[id |-> pd.id, takes |-> name,
                                      cameras |-> cam_list_str(order), render_local |-> TRUE]}
                       ELSE js,
              cur_cam |-> IF cur # NoCam THEN cur
                          ELSE IF submitted THEN after ELSE cur,
              rlog |-> <<"read_cur_cam">>
                       \o (IF submitted THEN <<"create_job", "main">> ELSE <<>>)
                       \o (IF cur # NoCam THEN <<"set_cur_cam">>
                           ELSE <<"info_no_render">>)]

\* How a publish of the render plugin can end.
RenderPublishOutcomes == {"NoPublishError", "Published"}

\* What the render plugin leaves alone.
session_side ==
    <<session, disk, settings, context, sg, props, allowed, engine_synced,
      remedy, outcome, events, pre, cycle_vars, probe_vars, ui_vars>>

\* The publisher asks the render plugin whether it takes the take item.
RenderAccept ==
    /\ raccepted = "unknown"
    /\ raccepted' = render_accept(cam_list)
    /\ UNCHANGED <<scene, take_name, cam_list, cams, cur_cam, jobs, rout, rlog>>
    /\ UNCHANGED session_side

\* The user ticks and unticks the cameras of the task.
SelectCams ==
    /\ raccepted = "accepted"
    /\ rout \notin RenderPublishOutcomes
    /\ cams' \in [cam_list.entries -> BOOLEAN]
    /\ rout' = "none"
    /\ UNCHANGED <<scene, take_name, cam_list, raccepted, cur_cam, jobs, rlog>>
    /\ UNCHANGED session_side

\* The publisher calls validate of the render plugin on the take item.
RenderValidate ==
    /\ raccepted = "accepted"
    /\ rout \notin RenderPublishOutcomes
    /\ rout' = render_validate(take_name, cams)
    /\ UNCHANGED <<scene, take_name, cam_list, raccepted, cams, cur_cam, jobs,
                   rlog>>
    /\ UNCHANGED session_side

\* The publisher calls publish of the render plugin on the validated take
\* item, after the session item's tasks that were ticked.
RenderPublish ==
    /\ raccepted = "accepted"
    /\ rout = "Valid"
    /\ \E order \in Orders(Selected(cams)),
          after \in Selected(cams) \cup {cur_cam} :
           LET r == render_publish(publish_data, take_name, cams, cur_cam,
                                   jobs, order, after)
           IN  /\ rout' = r.rout
               /\ jobs' = r.jobs
               /\ cur_cam' = r.cur_cam
               /\ rlog' = r.rlog
    /\ UNCHANGED <<scene, take_name, cam_list, raccepted, cams>>
    /\ UNCHANGED session_side

\* A saved session that validates, with one take; the take item comes from
\* this collector, or from another one that left cam_list out or empty.
InitRender ==
    \E users \in SUBSET UserCamNames, tn \in TakeNames,
       origin \in {"collector", "missing", "empty"} :
        /\ disk = Files("routine", {1})
        /\ session = [dir |-> "routine", ver |-> 1, messy |-> FALSE]
        /\ settings = [force |-> TRUE, publish |-> None, work |-> None]
        /\ context = [task |-> TRUE, entity |-> "Routine"]
        /\ sg = "plain"
        /\ props = collect_current_motion_builder_session(session, settings)
        /\ allowed = accept(settings, context)
        /\ engine_synced = TRUE
        /\ remedy = NoRemedy
        /\ outcome = "none"
        /\ events = <<>>
        /\ pre = props
        /\ CycleIdle
        /\ ProbeIdle
        /\ UiIdle
        /\ scene = SystemCameras \cup {[name |-> n, system |-> FALSE] : n \in users}
        /\ take_name = tn
        /\ cam_list =
               LET cl == CASE origin = "collector" -> collect_cam_list(scene)
                           [] origin = "missing" -> [present |-> FALSE, entries |-> {}]
                           [] origin = "empty" -> [present |-> TRUE, entries |-> {}]
               IN  [origin |-> origin, present |-> cl.present, entries |-> cl.entries]
        /\ raccepted = "unknown"
        /\ cams = EmptyDict
        /\ cur_cam \in {NoCam, ProducerPerspective} \cup users
        /\ jobs = {}
        /\ rout = "none"
        /\ rlog = <<>>

NextRender ==
    \/ phase = "idle" /\ Validate
    \/ Publish
    \/ RenderAccept
    \/ SelectCams
    \/ RenderValidate
    \/ RenderPublish

SpecRender == InitRender /\ [][NextRender]_vars

\* ------------------------------------------------------------------------
\* render_upload_take_version.py lines 35-338: the settings widget of the
\* render plugin, its checkbox handlers, and the tasks it edits

\* QtCore.Qt.CheckState
Unchecked == 0
PartiallyChecked == 1
Checked == 2

\* The render tasks of the publish tree, one per take item, in tree order.
TaskOrder == <<"take_a", "take_b", "take_c">>

Tasks == {TaskOrder[i] : i \in DOMAIN TaskOrder}

\* The cameras of cam_list the widget shows a checkbox for: 'cam_1', 'cam-2'.
UiCamNames == {<<"c", "a", "m", "_", "1">>, <<"c", "a", "m", "-", "2">>}

\* Python's truth value of a stored checkbox state.
Truthy(v) == v # 0

\* lines 47-53, 102-104, 152-153: a handler as setup_cams_widget makes it
NewHandler == [mode |-> "None", tristate |-> FALSE, state |-> Unchecked]

\* lines 146-156
setup_cams_widget == [n \in UiCamNames |-> NewHandler]

\* QCheckBox.setCheckState: a partially checked box becomes tristate.
setCheckState(h, st) ==
    [h EXCEPT !.state = st,
              !.tristate = IF st = PartiallyChecked THEN TRUE ELSE @]

\* QCheckBox.nextCheckState, what a click of the user does: a tristate box
\* goes round its three states, any other box toggles.
click(h) ==
    IF h.tristate
    THEN [h EXCEPT !.state = (@ + 1) % 3]
    ELSE [h EXCEPT !.state = IF @ = Unchecked THEN Checked ELSE Unchecked]

\* lines 106-113
apply_edit_mode(h) ==
    LET h1 == [h EXCEPT !.tristate = (h.mode = "True")]
    IN  IF h.mode = "True" THEN setCheckState(h1, PartiallyChecked) ELSE h1

\* lines 69-75: the setter of multi_edit_mode
set_multi_edit_mode(h, is_multi) ==
    LET m == IF is_multi THEN "True" ELSE "False"
    IN  IF m = h.mode THEN h
        ELSE apply_edit_mode([h EXCEPT !.mode = m])

\* lines 115-123
is_value_available(h) == h.state # PartiallyChecked

\* lines 226-246
get_ui_settings(c) ==
    [n \in {m \in DOMAIN c : is_value_available(c[m])} |-> c[n].state]

\* The comparison of the values the tasks hold, tasks without the camera left
\* out.
cams_settings_requires_multi_edit_mode_PresentOnly(tasks_settings, cam_name) ==
    LET cam_exists_setting ==
            {i \in DOMAIN tasks_settings : cam_name \in DOMAIN tasks_settings[i]}
    IN  \E i, j \in cam_exists_setting :
            tasks_settings[i][cam_name] # tasks_settings[j][cam_name]

\* lines 263-295
cams_settings_requires_multi_edit_mode(tasks_settings, cam_name) ==
    LET cam_exists_setting ==
            {i \in DOMAIN tasks_settings : cam_name \in DOMAIN tasks_settings[i]}
    IN  IF cam_exists_setting = {} THEN FALSE
        ELSE IF Len(tasks_settings) # Cardinality(cam_exists_setting)
        THEN \E i \in cam_exists_setting : Truthy(tasks_settings[i][cam_name])
        ELSE ~(\A i \in DOMAIN tasks_settings :
                   tasks_settings[1][cam_name] = tasks_settings[i][cam_name])

\* lines 297-321
set_ui_settings(c, tasks_settings) ==
    [cam_name \in DOMAIN c |->
        LET h == set_multi_edit_mode(
                     c[cam_name],
                     cams_settings_requires_multi_edit_mode(tasks_settings, cam_name))
        IN  IF h.mode # "False" THEN h
            ELSE IF cam_name \in DOMAIN tasks_settings[1]
            THEN setCheckState(h, IF Truthy(tasks_settings[1][cam_name])
                                  THEN Checked ELSE Unchecked)
            ELSE setCheckState(h, Unchecked)]

\* lines 323-338: the cams of the task after the update
manage_ui_settings(task_cams, new_cams) ==
    [n \in DOMAIN task_cams \cup DOMAIN new_cams |->
        IF n \in DOMAIN new_cams THEN new_cams[n] ELSE task_cams[n]]

\* The tasks of a selection.
Range(seq) == {seq[i] : i \in DOMAIN seq}

\* The selections the user can make among the render tasks, each in tree
\* order.
Selections ==
    {SelectSeq(TaskOrder, LAMBDA t : t \in S) : S \in (SUBSET Tasks) \ {{}}}

\* What the settings widget leaves alone.
beyond_ui ==
    <<session, disk, settings, context, sg, props, allowed, engine_synced,
      remedy, outcome, events, pre, cycle_vars, probe_vars, render_vars>>

\* The user selects other render tasks: the publisher pulls the settings off
\* the widget and hands them to each task that was selected, makes the widget
\* anew or keeps it, and shows the settings of the tasks now selected.
ChangeSelection ==
    /\ \E newsel \in Selections, rebuild \in BOOLEAN :
           LET returned == get_ui_settings(chk)
               tasks1 == IF ui_selected = <<>> THEN ui_tasks
                         ELSE [t \in Tasks |->
                                  IF t \in Range(ui_selected)
                                  THEN manage_ui_settings(ui_tasks[t], returned)
                                  ELSE ui_tasks[t]]
               chk0 == IF rebuild THEN setup_cams_widget ELSE chk
               tasks_settings == [i \in DOMAIN newsel |-> tasks1[newsel[i]]]
           IN  /\ newsel # ui_selected
               /\ ui_tasks' = tasks1
               /\ chk' = set_ui_settings(chk0, tasks_settings)
               /\ ui_selected' = newsel
    /\ ui_clicked' = {}
    /\ UNCHANGED beyond_ui

\* The user clicks the checkbox of a camera.
Click ==
    /\ ui_selected # <<>>
    /\ \E cam_name \in DOMAIN chk :
           /\ chk' = [chk EXCEPT ![cam_name] = click(@)]
           /\ ui_clicked' = ui_clicked \cup {cam_name}
    /\ UNCHANGED <<ui_tasks, ui_selected>>
    /\ UNCHANGED beyond_ui

\* The publisher shows three takes whose render tasks have the default cams
\* setting; no task is selected yet.
InitUi ==
    /\ disk = Files("routine", {1})
    /\ session = [dir |-> "routine", ver |-> 1, messy |-> FALSE]
    /\ settings = [force |-> TRUE, publish |-> None, work |-> None]
    /\ context = [task |-> TRUE, entity |-> "Routine"]
    /\ sg = "plain"
    /\ props = collect_current_motion_builder_session(session, settings)
    /\ allowed = accept(settings, context)
    /\ engine_synced = TRUE
    /\ remedy = NoRemedy
    /\ outcome = "none"
    /\ events = <<>>
    /\ pre = props
    /\ CycleIdle
    /\ ProbeIdle
    /\ RenderIdle
    /\ ui_tasks = [t \in Tasks |-> EmptyDict]
    /\ ui_selected = <<>>
    /\ chk = setup_cams_widget
    /\ ui_clicked = {}

NextUi == ChangeSelection \/ Click

SpecUi == InitUi /\ [][NextUi]_vars

\* ------------------------------------------------------------------------
\* Properties of validate.  outcome # "none" says that validate was the last
\* thing to happen: session, disk, settings, context and sg are then what the
\* call saw, pre is item.properties before it and props after it.

Did(e) == \E i \in DOMAIN events : events[i] = e

\* validate got past its own checks and handed the item to the base class.
ReachedBase == outcome \in {"Valid", "BaseRejected"}

\* The path validate works on.
SessionPath == Normalize(session)

\* The template the Publish Template setting resolves to, None if none.
ConfiguredPublishTemplate == get_template_by_name(settings.publish)

\* C1: validate of a session that has no saved path never reports the item
\* valid: it ends with the unsaved-session error, whatever Force Template, the
\* task and the template settings are, and leaves item.properties alone.
C1_UnsavedSessionFails ==
    (outcome # "none" /\ session = EmptyPath)
        => /\ outcome = "UnsavedSessionError"
           /\ events = <<"error_unsaved">>
           /\ props = pre

C1_Witness ==
    /\ session = EmptyPath
    /\ outcome = "UnsavedSessionError"
    /\ ~settings.force
    /\ context.task
    /\ settings.publish # None
    /\ pre.work_template # None

\* C2: with a saved path, Force Template true and no task on the context,
\* validate returns False with the task error before it resolves a template or
\* writes an item property.
C2_MissingTaskRejectsFirst ==
    (outcome # "none" /\ session # EmptyPath /\ settings.force /\ ~context.task)
        => /\ outcome = "MissingTask"
           /\ events = <<"error_no_task">>
           /\ props = pre

C2_Witness ==
    /\ outcome = "MissingTask"
    /\ session # EmptyPath
    /\ settings.force
    /\ ~context.task
    /\ settings.publish # None

\* The item carries a work template the session path does not match.
WorkTemplateMismatch ==
    /\ pre.work_template # None
    /\ ~TemplateValidate(pre.work_template, SessionPath)

\* C3: with the Force Template value false, a work template on the item that
\* the normalized session path does not match only draws a warning and
\* validate goes on to the later checks; with the value true the same mismatch
\* rejects the item.
C3_MismatchWarnsUnlessForced ==
    (outcome # "none" /\ session # EmptyPath /\ context.task /\ WorkTemplateMismatch)
        => /\ ~settings.force =>
                 /\ outcome # "TemplateMismatch"
                 /\ Did("warning_mismatch")
                 /\ Did("probe")
           /\ settings.force => outcome = "TemplateMismatch"

\* C4: with the Force Template value false, a saved versioned path, no task,
\* no work template on the item, no Publish Template configured and the next
\* version free, validate passes its own checks without selecting templates
\* from the context and reaches the base class with the normalized path in
\* item.properties["path"].
C4_LenientSessionReachesBase ==
    (/\ outcome # "none"
     /\ ~settings.force
     /\ session # EmptyPath
     /\ session.ver # 0
     /\ ~context.task
     /\ pre.work_template = None
     /\ settings.publish = None
     /\ ~Exists(get_next_version_info(SessionPath).path, disk))
        => /\ ReachedBase
           /\ ~Did("select")
           /\ ~Did("work_validate")
           /\ props.path = SessionPath

\* The first version after the session's whose file does not exist on disk.
FirstFreeVersion ==
    CHOOSE v \in (session.ver + 1) .. (session.ver + Cardinality(disk) + 1) :
        /\ ~Exists([SessionPath EXCEPT !.ver = v], disk)
        /\ \A w \in (session.ver + 1) .. (v - 1) :
               Exists([SessionPath EXCEPT !.ver = w], disk)

C6_ExplicitTemplatesWin ==
    (outcome # "none")
        => /\ pre.work_template # None => props.work_template = pre.work_template
           /\ (ReachedBase /\ ConfiguredPublishTemplate # None)
                 => props.publish_template = ConfiguredPublishTemplate
           /\ Did("select")
                 => /\ settings.force
                    /\ pre.work_template = None \/ ConfiguredPublishTemplate = None

\* The CONTEXT_TEMPLATE entry the claim assigns to the context entity.
ExpectedKey ==
    IF context.entity \in {"Routine", "MocapTake"} /\ sg = "subsession"
    THEN Lower(context.entity) \o "_subsession"
    ELSE Lower(context.entity)

\* C7: for a Routine or MocapTake entity that the tracking system knows,
\* _get_templates_from_context completes, and the item then holds the
\* "<type>_subsession" pair of CONTEXT_TEMPLATE if sg_subsession is set and the
\* plain "<type>" pair if it is not.
C7_SubsessionPairSelected ==
    (/\ outcome # "none"
     /\ Did("select")
     /\ context.entity \in {"Routine", "MocapTake"}
     /\ sg # "absent"
     /\ pre.work_template = None
     /\ pre.publish_template = None)
        => /\ outcome \notin {"KeyError", "TypeError"}
           /\ Did("store")
           /\ props.work_template = CONTEXT_TEMPLATE[ExpectedKey].work_template
           /\ ReachedBase /\ ConfiguredPublishTemplate = None
                 => props.publish_template = CONTEXT_TEMPLATE[ExpectedKey].publish_template

\* C8: for an entity whose lower-cased type CONTEXT_TEMPLATE does not have,
\* _get_templates_from_context logs and returns: no exception, no query to the
\* tracking system, item.properties as they were.  validate is left with the
\* templates that were configured: it rejects for a missing work template only
\* if the item had none, and for a missing publish template only if neither
\* the setting nor the item gives one.
C8_UnsupportedTypeFallsBack ==
    (/\ outcome # "none"
     /\ Did("select")
     /\ context.entity # NoEntity
     /\ Lower(context.entity) \notin DOMAIN CONTEXT_TEMPLATE)
        => /\ Did("debug_unsupported")
           /\ ~Did("find_one")
           /\ ~Did("store")
           /\ outcome \notin {"KeyError", "TypeError"}
           /\ props.work_template = pre.work_template
           /\ props.publish_template \in {pre.publish_template, ConfiguredPublishTemplate}
           /\ outcome = "NoWorkTemplate" => pre.work_template = None
           /\ outcome = "NoPublishTemplate"
                 => ConfiguredPublishTemplate = None /\ pre.publish_template = None
           /\ (pre.work_template = None) => outcome = "NoWorkTemplate"

C8_Witness ==
    /\ outcome = "NoPublishTemplate"
    /\ context.entity = "Shot"
    /\ Did("debug_unsupported")
    /\ pre.work_template = "custom_work"
    /\ props.work_template = "custom_work"

\* C9: when the tracking system returns nothing for a supported entity,
\* _get_templates_from_context returns without selecting a template or
\* touching item.properties, and validate ends by rejecting the item for the
\* missing template, not in another failure.
C9_AbsentEntityRejectsForTemplate ==
    (outcome # "none" /\ Did("find_one") /\ sg = "absent")
        => /\ outcome \in {"NoWorkTemplate", "NoPublishTemplate"}
           /\ ~Did("store")
           /\ props.work_template = pre.work_template

\* C10 as stated: after validate accepted an item under Force Template true,
\* the item's publish template validates against item.properties["path"].
C10_PublishTemplateMatchesPath ==
    (outcome = "Valid" /\ settings.force)
        => /\ props.publish_template # None
           /\ TemplateValidate(props.publish_template, props.path)

\* C10 amended: after validate passed its own checks under Force Template
\* true, the item holds a publish template and a work template, and it is the
\* work template that validates against item.properties["path"]; the publish
\* template is not matched against the path.
C10_WorkTemplateMatchesPath ==
    (ReachedBase /\ settings.force)
        => /\ props.publish_template # None
           /\ props.work_template # None
           /\ props.path = SessionPath
           /\ TemplateValidate(props.work_template, props.path)

C10_Witness ==
    /\ outcome = "Valid"
    /\ settings.force
    /\ props.work_template = "custom_work"
    /\ props.publish_template = "custom_publish"
    /\ TemplateValidate(props.work_template, props.path)
    /\ ~TemplateValidate(props.publish_template, props.path)

\* ------------------------------------------------------------------------
\* Properties of publish and finalize.

\* What publish and finalize logged, in order.
PublishLog == <<"save", "write_path", "register">>

\* The part of the log finalize wrote.
FinalizeLog == SubSeq(plog, Len(PublishLog) + 1, Len(plog))

\* C11: publish issues the save of the session to its normalized current
\* path, then sets props['path'] to that path, then lets the base class
\* register the publish of it; a publish whose save raised registered
\* nothing; the save leaves the session on its path.
C11_SaveThenPathThenRegister ==
    /\ (phase = "idle" /\ fin = "SaveError")
           => (records = {} /\ publish_data = NoRecord)
    /\ phase = "published"
           => /\ plog = PublishLog
              /\ props.path = Normalize(published_from)
              /\ publish_data.path = props.path
              /\ publish_data \in records
              /\ Normalize(session) = Normalize(published_from)

C11_Witness ==
    /\ phase = "published"
    /\ plog = PublishLog
    /\ publish_data \in records
    /\ publish_data.path.ver = 2
    /\ session = publish_data.path

\* C12: a registered publish record is never removed, and when the save
\* finalize issued did not bring the session to the next version, finalize
\* reported the failure.
C12_FailedBumpIsReported ==
    phase = "finalized"
        => /\ publish_data \in records
           /\ ("save" \in {FinalizeLog[i] : i \in DOMAIN FinalizeLog}
                 /\ session # get_next_version_info(props.path).path)
                  => fin = "SaveError"

C18_UnversionedPathIsNoError ==
    /\ (outcome # "none" /\ Did("probe") /\ session.ver = 0)
           => (outcome # "VersionCollisionError" /\ remedy = NoRemedy)
    /\ (phase = "finalized" /\ published_from.ver = 0)
           => /\ fin = "NoVersion"
              /\ FinalizeLog = <<"base_finalize", "debug_no_next_version">>
              /\ Normalize(session) = Normalize(published_from)
              /\ publish_data.path = Normalize(published_from)

C18_Witness ==
    /\ phase = "finalized"
    /\ published_from.ver = 0
    /\ published_from # EmptyPath
    /\ fin = "NoVersion"
    /\ settings.work = "flat_work"
    /\ Did("debug_match")

\* ------------------------------------------------------------------------
\* Properties of template resolution and of the order of the checks.

\* C19: validate never hands the item to the base class when a configured
\* template name does not resolve: the unresolvable name is an error, not a
\* missing configuration.
C19_UnresolvableTemplateIsSignalled ==
    (/\ outcome # "none"
     /\ \/ settings.work \notin Registry \cup {None}
        \/ settings.publish \notin Registry \cup {None})
        => ~ReachedBase

\* Where the first e is written in the log of the last validate call.
FirstIdx(e) ==
    CHOOSE i \in DOMAIN events :
        events[i] = e /\ \A j \in 1 .. (i - 1) : events[j] # e

\* a is logged before b whenever both are.
Before(a, b) == (Did(a) /\ Did(b)) => FirstIdx(a) < FirstIdx(b)

\* The check the last validate call ended in: 1 unsaved path, 2 missing task,
\* 3 work-template resolution, 4 work-template conformance, 5 version
\* collision, 6 publish-template resolution, 7 none of them.
FailedAt ==
    CASE outcome = "UnsavedSessionError" -> 1
      [] outcome = "MissingTask" -> 2
      [] outcome = "NoWorkTemplate" -> 3
      [] outcome = "TemplateMismatch" -> 4
      [] outcome = "VersionCollisionError" -> 5
      [] outcome = "NoPublishTemplate" -> 6
      [] outcome \in {"KeyError", "TypeError"} ->
             IF Did("get_publish_template") THEN 6 ELSE 3
      [] OTHER -> 7

ProbeDone == probe_pc \in {"passed", "raised"}

\* C17: with finitely many version files on disk the search for a free
\* version in validate comes to an end, and when it had to search it ends on
\* a path that does not exist, the first free one above the session's.
C17_ProbeTerminatesOnFreePath ==
    /\ <>ProbeDone
    /\ [](probe_pc = "raised"
            => /\ ~Exists(next_version_path, disk)
               /\ next_version_path.ver > Normalize(session).ver
               /\ \A v \in (Normalize(session).ver + 1) .. (next_version_path.ver - 1) :
                      Exists([next_version_path EXCEPT !.ver = v], disk)
               /\ next_version_path =
                      NextAvailable(get_next_version_info(Normalize(session)), disk).path)

C17_Witness ==
    /\ probe_pc = "raised"
    /\ Normalize(session).ver = 1
    /\ next_version_path.ver >= 3
    /\ ~Exists(next_version_path, disk)

\* ------------------------------------------------------------------------
\* Properties of the take item and the render plugin.

\* C14: the render plugin's publish submits a job only with the parent item's
\* sg_publish_data; without it publish fails with the error at once: no job,
\* and the current camera neither read nor set.
C14_NoRenderWithoutPublish ==
    /\ [](jobs # {} => (publish_data # NoRecord
                          /\ \A j \in jobs : j.id = publish_data.id))
    /\ [][(rout = "Valid" /\ rout' \in RenderPublishOutcomes
             /\ publish_data = NoRecord)
            => /\ rout' = "NoPublishError"
               /\ rlog' = <<"error_no_publish">>
               /\ UNCHANGED <<jobs, cur_cam>>]_vars

C14_Witness ==
    /\ rout = "NoPublishError"
    /\ publish_data = NoRecord
    /\ Selected(cams) # {}
    /\ jobs = {}
    /\ rlog = <<"error_no_publish">>

\* The name holds letters, digits and underscores only.
WordOnly(name) == \A i \in DOMAIN name : name[i] \in WordChars

\* How validate of the render plugin can end.
RenderValidateOutcomes ==
    {"Valid", "BadTakeName", "NoCameraSelected", "BadCameraName"}

\* C15: validate of the render plugin returns True exactly when the take name
\* holds only letters, digits and underscores, at least one camera is
\* selected, and every selected camera's name holds only letters, digits and
\* underscores.
C15_ValidIffWordNamesAndSelection ==
    rout \in RenderValidateOutcomes
        => (rout = "Valid"
              <=> /\ WordOnly(take_name)
                  /\ Selected(cams) # {}
                  /\ \A n \in Selected(cams) : WordOnly(n))

\* The names of the scene's cameras that are not system cameras.
UserCams == {c.name : c \in {x \in scene : ~x.system}}

\* C16: the collector's cam_list holds the non-system cameras if there are
\* any and else the single camera 'Producer Perspective', never a null entry;
\* the render plugin accepts a take item exactly when its cam_list is there
\* and not empty.
C16_CamListAndAccept ==
    /\ cam_list.origin = "collector"
           => /\ cam_list.present
              /\ cam_list.entries =
                     IF UserCams # {} THEN UserCams ELSE {ProducerPerspective}
              /\ NoCam \notin cam_list.entries
    /\ raccepted # "unknown"
           => (raccepted = "accepted"
                 <=> (cam_list.present /\ cam_list.entries # {}))

C16_Witness ==
    /\ cam_list.origin = "collector"
    /\ UserCams = {}
    /\ cam_list.entries = {ProducerPerspective}
    /\ raccepted = "accepted"

\* ------------------------------------------------------------------------
\* Properties of the settings widget.

\* The settings set_ui_settings was last given: those of the selected tasks.
ShownSettings == [i \in DOMAIN ui_selected |-> ui_tasks[ui_selected[i]]]

\* The camera's value in a task's cams, a camera that is not there counting
\* as unchecked.
Effective(task_cams, cam_name) ==
    IF cam_name \in DOMAIN task_cams THEN task_cams[cam_name] ELSE Unchecked

\* The selected tasks do not agree on the camera.
Divergent(cam_name) ==
    \E i, j \in DOMAIN ShownSettings :
        Effective(ShownSettings[i], cam_name) # Effective(ShownSettings[j], cam_name)

\* C21: right after set_ui_settings returned, whatever calls and clicks came
\* before, every camera checkbox whose value differs across the selected
\* tasks is partially checked and has no value available.
C21_DivergentShowsPartiallyChecked ==
    (ui_selected # <<>> /\ ui_clicked = {})
        => \A cam_name \in DOMAIN chk :
               Divergent(cam_name)
                   => /\ chk[cam_name].state = PartiallyChecked
                      /\ ~is_value_available(chk[cam_name])

\* The tasks that hold the camera hold different values for it.
ValuesDiffer(cam_name) ==
    \E i, j \in DOMAIN ShownSettings :
        /\ cam_name \in DOMAIN ShownSettings[i]
        /\ cam_name \in DOMAIN ShownSettings[j]
        /\ ShownSettings[i][cam_name] # ShownSettings[j][cam_name]

\* Some tasks hold the camera and others do not.
MixedPresence(cam_name) ==
    \E i, j \in DOMAIN ShownSettings :
        /\ cam_name \in DOMAIN ShownSettings[i]
        /\ cam_name \notin DOMAIN ShownSettings[j]

SameFor(before, after, cam_name) ==
    /\ (cam_name \in DOMAIN before) <=> (cam_name \in DOMAIN after)
    /\ cam_name \in DOMAIN before => before[cam_name] = after[cam_name]

\* C23: when the selection changes, a camera that set_ui_settings left in
\* multi-edit mode and the user did not click is not among the settings
\* get_ui_settings returns, and manage_ui_settings leaves every task's value
\* for it, and for every camera not returned, as it was.
C23_UntouchedDivergentChangesNothing ==
    [][(ui_selected # <<>> /\ ui_selected' # ui_selected)
          => \A cam_name \in DOMAIN chk :
                 /\ (chk[cam_name].mode = "True" /\ cam_name \notin ui_clicked)
                        => /\ cam_name \notin DOMAIN get_ui_settings(chk)
                           /\ \A t \in Tasks :
                                  SameFor(ui_tasks[t], ui_tasks'[t], cam_name)
                 /\ cam_name \notin DOMAIN get_ui_settings(chk)
                        => \A t \in Tasks :
                               SameFor(ui_tasks[t], ui_tasks'[t], cam_name)]_vars

\* ------------------------------------------------------------------------
\* Properties of template selection across changes of context.

\* C24: under Force Template with no template configured, after every
\* validate that passed the plugin's checks the item's work and publish
\* template are the pair CONTEXT_TEMPLATE holds for the item's context
\* entity as it is now, also when an earlier validate ran on the item under
\* another context entity.
C24_TemplatesFollowContext ==
    (/\ ReachedBase
     /\ settings.force
     /\ settings.work = None
     /\ settings.publish = None
     /\ context.entity # NoEntity
     /\ ExpectedKey \in DOMAIN CONTEXT_TEMPLATE)
        => /\ props.work_template = CONTEXT_TEMPLATE[ExpectedKey].work_template
           /\ props.publish_template = CONTEXT_TEMPLATE[ExpectedKey].publish_template

\* ------------------------------------------------------------------------
\* Properties of the render plugin's publish.

\* C25: when the render plugin's publish returns, the renderer's current
\* camera is the one it was when publish was called, whatever the job did to
\* it and also when no camera was current; and one job, with the selected
\* camera names joined by ':', is run exactly when a camera is selected.
C25_CameraRestoredAndOneJob ==
    [][(rout = "Valid" /\ rout' = "Published")
          => /\ cur_cam' = cur_cam
             /\ (Selected(cams) # {}) <=> (jobs' # jobs)
             /\ jobs' # jobs
                    => \E order \in Orders(Selected(cams)) :
                           jobs' = jobs \cup {[id |-> publish_data.id,
                                               takes |-> take_name,
                                               cameras |-> cam_list_str(order),
                                               render_local |-> TRUE]}]_vars

====
